---- MODULE Spec2Model ----
(***************************************************************************)
(* A model of yieldfrom.py: the `yieldfrom` decorator's wrapper generator  *)
(* (the delegation driver), the `From` marker, `get_stop_iteration_value`  *)
(* and `close_safely`, driven by an external caller through next, send,    *)
(* throw and close.  Producers are Python 2 generators and iterators; a    *)
(* driver is itself a generator, so drivers nest.                          *)
(***************************************************************************)
EXTENDS Integers, Sequences, FiniteSets, TLC

\* Most statements the generated outer generator function has before its
\* final `yield 4`.
MaxLen == 1

----------------------------------------------------------------------------
\* Python values: None, integers, and From instances (by their .iterator).

None == <<"none", 0>>
IntV(n) == <<"int", n>>
Marker(n) == <<"From", n>>

\* isinstance(item, From)
IsFrom(v) == v[1] = "From"

\* Python truth value of `sent` in `if sent:`
Truthy(v) == ~(v = None \/ v = IntV(0))

\* Exception classes that `except Exception` catches (Python 2.7 hierarchy:
\* GeneratorExit, KeyboardInterrupt and SystemExit derive from BaseException).
IsException(e) == e \notin {"GeneratorExit", "KeyboardInterrupt", "SystemExit"}

\* The outcome of one call on a producer.
Res(k, v, a, e) == [kind |-> k, val |-> v, args |-> a, exc |-> e]
Yield(v) == Res("yield", v, <<>>, "")
Stop(a) == Res("stop", None, a, "")
Raise(e) == Res("raise", None, <<>>, e)
NoAttr == Res("noattr", None, <<>>, "AttributeError")
Returned == Res("ok", None, <<>>, "")
Pending == Res("pending", None, <<>>, "")

\* An attribute lookup that failed surfaces as AttributeError.
AsExc(r) == IF r.kind = "noattr" THEN Raise("AttributeError") ELSE r

----------------------------------------------------------------------------
\* The objects of a run.

Top == 1           \* the driver the external caller holds: yieldfrom(gen)()
TopGen == 2        \* its generator_func(): the generated body `prog`
SubGen == 3        \* a plain generator with a handler and Return(100)
ListIter == 4      \* iter([40, 41]): next only
SubDriver == 5     \* a nested driver (test_nesting / test_throwing)
SubDriverGen == 6  \* its generator_func(): From(subsubgen()), From(None) twice, 60, Return(66)
SubSubGen == 7     \* yields 70 and 72 in try/except, then Return(77)
NonIterable == 8   \* None: iter() raises TypeError
EmptyIter == 9     \* iter([]) built by From for a non-iterable
NonGenDriver == 10 \* yieldfrom of a non-generator function
NonGen == 11       \* its generator_func(): the integer 42
RaisesFirst == 12  \* a generator that raises before its first yield
RaisesLater == 13  \* yield 80; raise ValueError(); yield 81
IterDriver == 14   \* yieldfrom of a function that returns an iterator
OuterIter == 15    \* its generator_func(): iter([50, 51]), next only
IgnoresExit == 16  \* try: yield 30 / except GeneratorExit: yield 31
MarkerGen == 17    \* an undecorated generator: yield From(None); yield 90

Nodes == 1..17

Kind(n) ==
  CASE n \in {Top, SubDriver, NonGenDriver, IterDriver} -> "driver"
    [] n \in {TopGen, SubGen, SubDriverGen, SubSubGen, RaisesFirst, RaisesLater,
              IgnoresExit, MarkerGen} -> "gen"
    [] n \in {ListIter, EmptyIter, OuterIter} -> "iter"
    [] OTHER -> "value"

\* gen = generator_func(*args, **kwargs)
Gen(d) ==
  CASE d = Top -> TopGen
    [] d = SubDriver -> SubDriverGen
    [] d = IterDriver -> OuterIter
    [] OTHER -> NonGen

Items(n) ==
  CASE n = ListIter -> <<IntV(40), IntV(41)>>
    [] n = OuterIter -> <<IntV(50), IntV(51)>>
    [] OTHER -> <<>>

\* hasattr(n, name) for the four methods of the generator protocol
HasAttr(n, name) ==
  CASE Kind(n) \in {"gen", "driver"} -> name \in {"next", "send", "throw", "close"}
    [] Kind(n) = "iter" -> name = "next"
    [] OTHER -> FALSE

\* One statement of a generator body, optionally inside
\* try: <yield> / except <catches>: <yield hval | pass>.
St(op, val, tgt, exc, catches, hop, hval) ==
  [op |-> op, val |-> val, tgt |-> tgt, exc |-> exc,
   catches |-> catches, hop |-> hop, hval |-> hval]
YieldSt(v) == St("yield", v, 0, "", {}, "none", None)
YieldTry(v, c, hv) == St("yield", v, 0, "", c, "yield", hv)
FromSt(t) == St("from", None, t, "", {}, "none", None)
FromTry(t, c, hv) == St("from", None, t, "", c, "yield", hv)
YieldPass(v, c) == St("yield", v, 0, "", c, "pass", None)
ReturnSt(v) == St("return", v, 0, "", {}, "none", None)
RaiseSt(e) == St("raise", None, 0, e, {}, "none", None)

\* What the outer generator may delegate to.
Targets == {SubGen, ListIter, SubDriver, NonIterable, NonGenDriver,
            RaisesFirst, RaisesLater, IterDriver, IgnoresExit, MarkerGen}

\* The statements of a generated outer body: every yield and every
\* delegation sits in try/except ValueError, so that a ValueError is handled
\* by the outer generator and any other exception is not.
Stmts ==
  {YieldTry(IntV(1), {"ValueError"}, IntV(9)), ReturnSt(IntV(7)),
   FromSt(RaisesLater)}
  \cup {FromTry(t, {"ValueError"}, IntV(3)) : t \in Targets}

\* Each From(...) expression builds its own producer; only the empty iterator
\* of a non-iterable is interchangeable.
NoSharing(s) ==
  \A i, j \in DOMAIN s :
    (i < j /\ s[i].op = "from" /\ s[j].op = "from" /\ s[i].tgt = s[j].tgt)
      => s[i].tgt = NonIterable

\* The generated bodies: up to MaxLen statements, then `yield 4` in
\* try/except ValueError (the shape of the bodies in tests.py).
Progs ==
  {s \o <<YieldTry(IntV(4), {"ValueError"}, IntV(9))>> :
     s \in {t \in UNION {[1..n -> Stmts] : n \in 0..MaxLen} : NoSharing(t)}}

VARIABLES
  prog,     \* the body of the outer generator function
  ns,       \* per object: st (position), pc (statement / items consumed), sub
  log,      \* the calls of the latest external call, in call order
  facts,    \* per object: <<op, st before, outcome>> of the calls drivers made on it
  closes,   \* per object: how many times a driver attempted close on it
  emitted,  \* the values the external caller has received
  plain     \* the external caller has only ever called next()

vars == <<prog, ns, log, facts, closes, emitted, plain>>

Script(n) ==
  CASE n = TopGen -> prog
    [] n = SubGen -> <<YieldTry(IntV(20), {"ValueError"}, IntV(21)), YieldSt(IntV(22)),
                       ReturnSt(IntV(100))>>
    [] n = SubDriverGen -> <<FromSt(SubSubGen), FromSt(NonIterable), FromSt(NonIterable),
                             YieldPass(IntV(60), {"KeyError"}), ReturnSt(IntV(66))>>
    [] n = SubSubGen -> <<YieldTry(IntV(70), {"ValueError"}, IntV(71)),
                          YieldPass(IntV(72), {"KeyError"}), ReturnSt(IntV(77))>>
    [] n = RaisesFirst -> <<RaiseSt("ValueError")>>
    [] n = RaisesLater -> <<YieldSt(IntV(80)), RaiseSt("ValueError"), YieldSt(IntV(81))>>
    [] n = IgnoresExit -> <<YieldTry(IntV(30), {"GeneratorExit"}, IntV(31))>>
    [] n = MarkerGen -> <<FromSt(NonIterable), YieldSt(IntV(90))>>
    [] OTHER -> <<>>

----------------------------------------------------------------------------
\* class From: self.iterator = iter(iterable_expression), or iter([]) when
\* iter() raises TypeError.

\* iter(x)
Iter(x) ==
  IF Kind(x) = "value" THEN [kind |-> "raise", node |-> 0]
  ELSE [kind |-> "ok", node |-> x]

\* (variant: no fallback to iter([]) for a non-iterable)
FromNoFallback(x) == Marker(x)

From(x) ==
  LET r == Iter(x)
  IN IF r.kind = "raise" THEN Marker(EmptyIter) ELSE Marker(r.node)

\* (variant: the payload of the completion signal is dropped)
stop_value_dropped(args) == None

\* e_stop.args[0] if e_stop.args else None
get_stop_iteration_value(args) == IF Len(args) > 0 THEN args[1] ELSE None

----------------------------------------------------------------------------
\* The run state threaded through a call: S = [ns, log, facts, closes].

\* The element of a one-element set.  {F(c) : c \in {e}} computes e once
\* before F uses it, which is how the outcome of a call is bound below.
The(X) == CHOOSE x \in X : TRUE

Entry(n, op, arg, exc, par, S) ==
  [node |-> n, op |-> op, arg |-> arg, exc |-> exc, par |-> par,
   st |-> S.ns[n].st, pc |-> S.ns[n].pc, sub |-> S.ns[n].sub,
   pre |-> S.facts[n], res |-> Pending]

SetNode(S, n, st, pc, sub) ==
  [S EXCEPT !.ns[n] = [st |-> st, pc |-> pc, sub |-> sub]]

\* A Python 2 generator: run the body from statement i to the next yield,
\* the Return, the raise, or the end of the body.
GenRun(S, n, i) ==
  IF i > Len(Script(n))
  THEN [S |-> SetNode(S, n, "done", i, 0), r |-> Stop(<<>>)]
  ELSE LET s == Script(n)[i]
       IN CASE s.op = "yield" -> [S |-> SetNode(S, n, "susp", i, 0), r |-> Yield(s.val)]
            [] s.op = "from" -> [S |-> SetNode(S, n, "susp", i, 0), r |-> Yield(From(s.tgt))]
            [] s.op = "return" -> [S |-> SetNode(S, n, "done", i, 0), r |-> Stop(<<s.val>>)]
            [] OTHER -> [S |-> SetNode(S, n, "done", i, 0), r |-> Raise(s.exc)]

\* generator.next() is send(None)
GenSend(S, n, v) ==
  LET g == S.ns[n]
  IN CASE g.st = "done" -> [S |-> S, r |-> Stop(<<>>)]
       [] g.st = "new" -> IF v # None THEN [S |-> S, r |-> Raise("TypeError")]
                          ELSE GenRun(S, n, 1)
       [] OTHER -> GenRun(S, n, g.pc + 1)

GenThrow(S, n, e) ==
  LET g == S.ns[n]
  IN CASE g.st = "done" -> [S |-> S, r |-> Raise(e)]
       [] g.st = "new" -> [S |-> SetNode(S, n, "done", 0, 0), r |-> Raise(e)]
       [] g.st = "susp" /\ e \in Script(n)[g.pc].catches ->
            IF Script(n)[g.pc].hop = "yield"
            THEN [S |-> SetNode(S, n, "hsusp", g.pc, 0), r |-> Yield(Script(n)[g.pc].hval)]
            ELSE GenRun(S, n, g.pc + 1)
       [] OTHER -> [S |-> SetNode(S, n, "done", g.pc, 0), r |-> Raise(e)]

\* generator.close(): throw GeneratorExit at the suspended yield
GenExit(thrown) ==
  The({CASE t.r.kind = "yield" -> [S |-> t.S, r |-> Raise("RuntimeError")]
         [] t.r.kind = "stop" \/ t.r.exc = "GeneratorExit" -> [S |-> t.S, r |-> Returned]
         [] OTHER -> t : t \in {thrown}})

GenClose(S, n) ==
  IF S.ns[n].st \in {"new", "done"}
  THEN [S |-> SetNode(S, n, "done", S.ns[n].pc, 0), r |-> Returned]
  ELSE GenExit(GenThrow(S, n, "GeneratorExit"))

GenOp(S, n, op, arg, exc) ==
  CASE op = "next" -> GenSend(S, n, None)
    [] op = "send" -> GenSend(S, n, arg)
    [] op = "throw" -> GenThrow(S, n, exc)
    [] OTHER -> GenClose(S, n)

\* A list iterator, or an iterator object with extra methods.
IterOp(S, n, op) ==
  LET g == S.ns[n]
  IN CASE op = "next" /\ g.st = "iter" /\ g.pc < Len(Items(n)) ->
            [S |-> SetNode(S, n, "iter", g.pc + 1, 0), r |-> Yield(Items(n)[g.pc + 1])]
       [] op = "next" -> [S |-> S, r |-> Stop(<<>>)]
       [] OTHER -> [S |-> S, r |-> Returned]

----------------------------------------------------------------------------
\* The wrapper generator of yieldfrom(generator_func).  `me` is the log index
\* of the call on the driver that is being served; the calls the wrapper
\* makes while serving it are logged with par = me.

RECURSIVE Call(_, _, _, _, _, _)
RECURSIVE OuterLoop(_, _, _)

\* close_safely(gen): a missing `close` attribute is ignored.
close_safely(S, par, g) ==
  The({IF c.r.kind = "noattr" THEN [S |-> c.S, r |-> Returned] ELSE c :
         c \in {Call(S, par, g, "close", None, "")}})

\* (variant: the wrapper ends without the finally clause)
FinallyNoClose(S, me, d, r) == [S |-> SetNode(S, d, "done", 0, 0), r |-> r]

\* (variant: the wrapper signals the end of gen but is not finished itself)
FinallyStaysOpen(S, me, d, r) == [S |-> S, r |-> r]

\* finally: close_safely(gen).  The wrapper then ends with r (StopIteration
\* or the exception in flight) unless the close itself raises.
Finally(S, me, d, r) ==
  The({[S |-> SetNode(c.S, d, "done", 0, 0),
        r |-> IF c.r.kind = "raise" THEN c.r ELSE r] :
         c \in {close_safely(S, me, Gen(d))}})

\* (variant: a From instance yielded by subgen is unwrapped and polled)
FirstPollUnwraps(S, me, d, subgen) ==
  LET c == Call(S, me, subgen, "next", None, "")
  IN CASE c.r.kind = "yield" /\ IsFrom(c.r.val) ->
            LET c2 == Call(c.S, me, c.r.val[2], "next", None, "")
            IN [S |-> SetNode(c2.S, d, "deleg", 0, c.r.val[2]), r |-> c2.r]
       [] c.r.kind = "yield" -> [S |-> SetNode(c.S, d, "deleg", 0, subgen), r |-> c.r]
       [] c.r.kind = "stop" ->
            OuterLoop(Call(c.S, me, Gen(d), "send",
                           get_stop_iteration_value(c.r.args), ""), me, d)
       [] OTHER -> Finally(c.S, me, d, AsExc(c.r))

\* subgen = item.iterator; first poll of subgen.  Only StopIteration is
\* caught around the first subgen.next().
FirstPoll(S, me, d, subgen) ==
  The({CASE c.r.kind = "yield" -> [S |-> SetNode(c.S, d, "deleg", 0, subgen), r |-> c.r]
         [] c.r.kind = "stop" ->
              OuterLoop(Call(c.S, me, Gen(d), "send",
                             get_stop_iteration_value(c.r.args), ""), me, d)
         [] OTHER -> Finally(c.S, me, d, AsExc(c.r)) :
         c \in {Call(S, me, subgen, "next", None, "")}})

\* (variant: the wrapper ends with a bare StopIteration when gen completes)
OuterLoopStopsEmpty(c, me, d) ==
  CASE c.r.kind = "stop" -> Finally(c.S, me, d, Stop(<<>>))
    [] c.r.kind # "yield" -> Finally(c.S, me, d, AsExc(c.r))
    [] c.r.kind = "yield" /\ ~IsFrom(c.r.val) ->
         [S |-> SetNode(c.S, d, "outer", 0, 0), r |-> c.r]
    [] OTHER -> FirstPoll(c.S, me, d, c.r.val[2])

\* (variant: a From instance is yielded to the caller like any other item)
OuterLoopEmitsMarker(c, me, d) ==
  CASE c.r.kind # "yield" -> Finally(c.S, me, d, AsExc(c.r))
    [] OTHER -> [S |-> SetNode(c.S, d, "outer", 0, 0), r |-> c.r]

\* Head of the OUTER loop with the outcome c of the last call on gen: a
\* plain item is yielded to the caller, a From starts a delegation, and
\* anything gen raises leaves the wrapper through the finally clause.
OuterLoop(called, me, d) ==
  The({CASE c.r.kind # "yield" -> Finally(c.S, me, d, AsExc(c.r))
         [] c.r.kind = "yield" /\ ~IsFrom(c.r.val) ->
              [S |-> SetNode(c.S, d, "outer", 0, 0), r |-> c.r]
         [] OTHER -> FirstPoll(c.S, me, d, c.r.val[2]) : c \in {called}})

\* (variant: an exception of subgen leaves the wrapper instead of going to gen)
ResumeResultNoForward(c, me, d) ==
  CASE c.r.kind = "yield" -> c
    [] c.r.kind = "stop" ->
         OuterLoop(Call(c.S, me, Gen(d), "send",
                        get_stop_iteration_value(c.r.args), ""), me, d)
    [] OTHER -> Finally(c.S, me, d, AsExc(c.r))

\* INNER loop, caller resumed the wrapper: outcome c of subgen.send(sent) or
\* subgen.next().
ResumeResult(called, me, d) ==
  The({CASE c.r.kind = "yield" -> c
         [] c.r.kind = "stop" ->
              OuterLoop(Call(c.S, me, Gen(d), "send",
                             get_stop_iteration_value(c.r.args), ""), me, d)
         [] OTHER ->
              OuterLoop(Call(c.S, me, Gen(d), "throw", None, AsExc(c.r).exc), me, d) :
         c \in {called}})

\* INNER loop, caller called throw(): outcome c of _throw(*sys.exc_info()).
ThrowResult(called, me, d) ==
  The({CASE c.r.kind = "yield" -> c
         [] c.r.kind = "stop" ->
              OuterLoop(Call(c.S, me, Gen(d), "send",
                             get_stop_iteration_value(c.r.args), ""), me, d)
         [] OTHER -> OuterLoop(Call(c.S, me, Gen(d), "throw", None, c.r.exc), me, d) :
         c \in {called}})

\* `_throw = subgen.throw` raised AttributeError: inside that except clause
\* sys.exc_info() is the AttributeError, which is what gen.throw receives.
NoThrowAttr(c, me, d, e) ==
  OuterLoop(Call(c.S, me, Gen(d), "throw", None, "AttributeError"), me, d)

\* (variant: GeneratorExit is re-raised without closing subgen)
DelegExitOuterOnly(S, me, d, e) == Finally(S, me, d, Raise(e))

\* (variant: what close_safely(subgen) raises is dropped for GeneratorExit)
DelegExitSwallows(S, me, d, e) ==
  LET c == close_safely(S, me, S.ns[d].sub)
  IN Finally(c.S, me, d, Raise(e))

\* except GeneratorExit: close_safely(subgen); raise
DelegExit(S, me, d, e) ==
  The({Finally(c.S, me, d, IF c.r.kind = "raise" THEN c.r ELSE Raise(e)) :
         c \in {close_safely(S, me, S.ns[d].sub)}})

\* (variant: the exception goes to gen although a delegation is in progress)
DelegThrowToOuter(S, me, d, e) ==
  IF e = "GeneratorExit" THEN DelegExit(S, me, d, e)
  ELSE OuterLoop(Call(S, me, Gen(d), "throw", None, e), me, d)

\* The wrapper is suspended at `sent = (yield subitem)` and an exception
\* arrives.
DelegThrow(S, me, d, e) ==
  IF e = "GeneratorExit" THEN DelegExit(S, me, d, e)
  ELSE The({IF c.r.kind = "noattr" THEN NoThrowAttr(c, me, d, e)
            ELSE ThrowResult(c, me, d) :
              c \in {Call(S, me, S.ns[d].sub, "throw", None, e)}})

\* (variant: the resume goes to gen although a delegation is in progress)
DelegSendToOuter(S, me, d, sent) ==
  OuterLoop(Call(S, me, Gen(d), "send", sent, ""), me, d)

\* The wrapper is suspended at `sent = (yield subitem)` and is resumed.
DelegSend(S, me, d, sent) ==
  IF Truthy(sent)
  THEN ResumeResult(Call(S, me, S.ns[d].sub, "send", sent, ""), me, d)
  ELSE ResumeResult(Call(S, me, S.ns[d].sub, "next", None, ""), me, d)

\* The wrapper is suspended at `sent = (yield item)` and an exception
\* arrives: `except Exception` forwards it to gen, anything else leaves.
OuterThrow(S, me, d, e) ==
  IF IsException(e)
  THEN OuterLoop(Call(S, me, Gen(d), "throw", None, e), me, d)
  ELSE Finally(S, me, d, Raise(e))

\* The wrapper is suspended at `sent = (yield item)` and is resumed.
OuterSend(S, me, d, sent) ==
  OuterLoop(Call(S, me, Gen(d), "send", sent, ""), me, d)

\* First resume of the wrapper: gen = generator_func(...); item = gen.next()
Start(S, me, d) ==
  OuterLoop(Call(S, me, Gen(d), "next", None, ""), me, d)

DriverSend(S, me, d, sent) ==
  LET st == S.ns[d].st
  IN CASE st = "done" -> [S |-> S, r |-> Stop(<<>>)]
       [] st = "new" -> IF sent # None THEN [S |-> S, r |-> Raise("TypeError")]
                        ELSE Start(S, me, d)
       [] st = "outer" -> OuterSend(S, me, d, sent)
       [] OTHER -> DelegSend(S, me, d, sent)

DriverThrow(S, me, d, e) ==
  LET st == S.ns[d].st
  IN CASE st = "done" -> [S |-> S, r |-> Raise(e)]
       [] st = "new" -> [S |-> SetNode(S, d, "done", 0, 0), r |-> Raise(e)]
       [] st = "outer" -> OuterThrow(S, me, d, e)
       [] OTHER -> DelegThrow(S, me, d, e)

DriverClose(S, me, d) ==
  IF S.ns[d].st \in {"new", "done"}
  THEN [S |-> SetNode(S, d, "done", 0, 0), r |-> Returned]
  ELSE GenExit(DriverThrow(S, me, d, "GeneratorExit"))

DriverOp(S, me, d, op, arg, exc) ==
  CASE op = "next" -> DriverSend(S, me, d, None)
    [] op = "send" -> DriverSend(S, me, d, arg)
    [] op = "throw" -> DriverThrow(S, me, d, exc)
    [] OTHER -> DriverClose(S, me, d)

\* n.op(...): the attribute lookup, then the call, logged with its outcome.
Call(S, par, n, op, arg, exc) ==
  LET idx == Len(S.log) + 1
      S0 == [S EXCEPT !.log = Append(@, Entry(n, op, arg, exc, par, S))]
  IN The({[S |-> [o.S EXCEPT !.log[idx].res = o.r,
                             !.facts[n] = IF par # 0
                                          THEN @ \cup {<<op, S.ns[n].st, o.r.kind>>}
                                          ELSE @,
                             !.closes[n] = IF op = "close" /\ par # 0 THEN @ + 1 ELSE @],
           r |-> o.r] :
            o \in {CASE ~HasAttr(n, op) -> [S |-> S0, r |-> NoAttr]
                     [] Kind(n) = "gen" -> GenOp(S0, n, op, arg, exc)
                     [] Kind(n) = "iter" -> IterOp(S0, n, op)
                     [] OTHER -> DriverOp(S0, idx, n, op, arg, exc)}})

----------------------------------------------------------------------------
\* The external caller.

SendVals == {IntV(0), IntV(5)}
ThrowExcs == {"ValueError", "KeyError", "KeyboardInterrupt", "GeneratorExit"}

InitSt(n) ==
  CASE Kind(n) \in {"gen", "driver"} -> "new"
    [] Kind(n) = "iter" -> "iter"
    [] OTHER -> "value"

Init ==
  /\ prog \in Progs
  /\ ns = [n \in Nodes |-> [st |-> InitSt(n), pc |-> 0, sub |-> 0]]
  /\ log = <<>>
  /\ facts = [n \in Nodes |-> {}]
  /\ closes = [n \in Nodes |-> 0]
  /\ emitted = <<>>
  /\ plain = TRUE

\* One call of the external caller on the top driver.
Ext(op, arg, exc) ==
  \E c \in {Call([ns |-> ns, log |-> <<>>, facts |-> facts, closes |-> closes],
                   0, Top, op, arg, exc)} :
     /\ ns' = c.S.ns
     /\ log' = c.S.log
     /\ facts' = c.S.facts
     /\ closes' = c.S.closes
     /\ emitted' = IF c.r.kind = "yield" THEN Append(emitted, c.r.val) ELSE emitted
     /\ plain' = (plain /\ op = "next")
     /\ prog' = prog

CallNext == Ext("next", None, "")

CallSend == \E v \in SendVals : Ext("send", v, "")

CallThrow == \E e \in ThrowExcs : Ext("throw", None, e)

CallClose == Ext("close", None, "")

Next == CallNext \/ CallSend \/ CallThrow \/ CallClose

Spec == Init /\ [][Next]_vars

\* A caller that keeps resuming: it calls next() again and again, and may
\* call send(v) in between; it never throws and never closes.
Resume == CallNext \/ CallSend

ResumeSpec == Init /\ [][Resume]_vars /\ WF_vars(CallNext)

----------------------------------------------------------------------------
\* Reading the log of the latest external call.

Idx == DOMAIN log

Min(X) == CHOOSE x \in X : \A y \in X : x <= y
Max(X) == CHOOSE x \in X : \A y \in X : x >= y

\* The calls a driver made while serving call p, and their order.
Kids(p) == {k \in Idx : log[k].par = p}
NextKid(p, k) == LET L == {j \in Kids(p) : j > k} IN IF L = {} THEN 0 ELSE Min(L)
PrevKid(p, k) == LET L == {j \in Kids(p) : j < k} IN IF L = {} THEN 0 ELSE Max(L)
FirstKid(p) == NextKid(p, 0)
LastKid(p) == IF Kids(p) = {} THEN 0 ELSE Max(Kids(p))

\* Calls served by a driver.
DriverCalls == {p \in Idx : Kind(log[p].node) = "driver"}
Drivers == {n \in Nodes : Kind(n) = "driver"}

\* Position (st, sub) of the callee of call p once the call has returned:
\* what its next call found, or where it is now.
After(p) ==
  LET L == {j \in Idx : j > p /\ log[j].node = log[p].node}
  IN IF L = {} THEN [st |-> ns[log[p].node].st, sub |-> ns[log[p].node].sub]
     ELSE [st |-> log[Min(L)].st, sub |-> log[Min(L)].sub]

TopDone == ns[Top].st = "done"

IsPrefix(a, b) == Len(a) <= Len(b) /\ \A i \in 1..Len(a) : a[i] = b[i]

\* Call k is a call a driver made on an inner producer (not on its gen).
InnerCall(k) ==
  /\ log[k].par \in DriverCalls
  /\ log[k].node # Gen(log[log[k].par].node)

\* Call k is the first poll of a delegation: the call before it, by the same
\* driver, is the call on gen that yielded the From instance.
IsFirstPoll(k) ==
  /\ InnerCall(k) /\ log[k].op = "next"
  /\ LET j == PrevKid(log[k].par, k)
     IN j # 0 /\ log[j].node = Gen(log[log[k].par].node)
        /\ log[j].res = Yield(Marker(log[k].node))

\* The call the driver made right after call k is gen.send(v).
ThenSends(k, v) ==
  LET j == NextKid(log[k].par, k)
  IN /\ j # 0
     /\ log[j].node = Gen(log[log[k].par].node)
     /\ log[j].op = "send" /\ log[j].arg = v

\* The call the driver made right after call k is gen.throw(e).
ThenThrows(k, e) ==
  LET j == NextKid(log[k].par, k)
  IN /\ j # 0
     /\ log[j].node = Gen(log[log[k].par].node)
     /\ log[j].op = "throw" /\ log[j].exc = e

\* Call p on a driver ended the way call j on its gen ended: a plain value is
\* emitted and the driver waits in Outer, an exception or the completion
\* signal of gen leaves the driver, a From is polled at once.
FollowsOuter(p, j) ==
  /\ (log[j].res.kind = "yield" /\ ~IsFrom(log[j].res.val)) =>
       /\ log[p].res = log[j].res
       /\ After(p).st = "outer"
  /\ log[j].res.kind \in {"raise", "stop"} =>
       /\ log[p].res = log[j].res
       /\ After(p).st = "done"
  /\ (log[j].res.kind = "yield" /\ IsFrom(log[j].res.val)) =>
       LET k == NextKid(p, j)
       IN k # 0 /\ log[k].node = log[j].res.val[2] /\ log[k].op = "next"

\* Some earlier call of kind `ops` on the callee of call j ended in an
\* exception of the callee.
RaisedBefore(j, ops) == \E f \in log[j].pre : f[1] \in ops /\ f[3] = "raise"

IsResume(j) == log[j].op \in {"next", "send", "throw"}

----------------------------------------------------------------------------
\* Depth-first order of the emitted values.

\* The values a body yields when it is run to its end under plain resume:
\* read by a driver (driven) each delegation is replaced by the values of its
\* target, read as a plain generator a From instance is one more value.
RECURSIVE FlatBody(_, _, _)
RECURSIVE Flat(_)

FlatBody(sc, i, driven) ==
  IF i > Len(sc) THEN <<>>
  ELSE CASE sc[i].op = "yield" -> <<sc[i].val>> \o FlatBody(sc, i + 1, driven)
         [] sc[i].op = "from" ->
              (IF driven THEN Flat(sc[i].tgt) ELSE <<From(sc[i].tgt)>>)
                \o FlatBody(sc, i + 1, driven)
         [] OTHER -> <<>>

Flat(n) ==
  CASE Kind(n) = "iter" -> Items(n)
    [] Kind(n) = "gen" -> FlatBody(Script(n), 1, FALSE)
    [] Kind(n) = "driver" /\ Kind(Gen(n)) = "gen" -> FlatBody(Script(Gen(n)), 1, TRUE)
    [] OTHER -> <<>>

\* No scope of the run raises: the outer body delegates only to producers
\* that yield and complete.
Finite(sc) ==
  \A i \in DOMAIN sc :
    sc[i].op = "from" =>
      sc[i].tgt \in {SubGen, ListIter, SubDriver, NonIterable, IgnoresExit, MarkerGen}

\* C1: under repeated plain resume of a finite outer producer the emitted
\* values are at every moment a prefix of the depth-first concatenation of
\* the scopes' yields, and the whole of it once the driver has finished.
C1_DepthFirstOrder ==
  (plain /\ Finite(prog)) =>
    /\ IsPrefix(emitted, FlatBody(prog, 1, TRUE))
    /\ TopDone => emitted = FlatBody(prog, 1, TRUE)

\* A finished plain run that delegated to the nested driver (which delegates
\* in turn) and then yielded a value of its own.
C1_Witness ==
  /\ plain /\ TopDone
  /\ prog[1].op = "from" /\ prog[1].tgt = SubDriver
  /\ emitted = <<IntV(70), IntV(72), IntV(60), IntV(4)>>

----------------------------------------------------------------------------
\* Completion value round trip.

\* C2: whenever a call on an inner producer ends with its completion signal,
\* the driver's next call is send(V) on the outer producer, V being the value
\* the signal carries, or send(None) when it carries none.
C2_CompletionValue ==
  \A k \in Idx :
    (InnerCall(k) /\ log[k].res.kind = "stop") =>
      IF log[k].res.args = <<>> THEN ThenSends(k, None)
      ELSE ThenSends(k, log[k].res.args[1])

\* One external call with completion in response to a throw (77) followed by
\* completion on a first poll (no value), in a run that ends with completion
\* on a later resume (66).
C2_Witness ==
  \/ /\ \E k \in Idx : InnerCall(k) /\ log[k].op = "throw"
                       /\ log[k].res = Stop(<<IntV(77)>>) /\ ThenSends(k, IntV(77))
     /\ \E k \in Idx : IsFirstPoll(k) /\ log[k].res = Stop(<<>>) /\ ThenSends(k, None)
  \/ /\ <<"throw", "susp", "stop">> \in facts[SubSubGen]
     /\ \E k \in Idx : InnerCall(k) /\ ~IsFirstPoll(k) /\ log[k].op = "next"
                       /\ log[k].res = Stop(<<IntV(66)>>) /\ ThenSends(k, IntV(66))

----------------------------------------------------------------------------
\* Routing of an exception thrown into a driver that is delegating.

\* Call p is throw(e) on a driver suspended inside a delegation, e not being
\* GeneratorExit.
DelegThrown(p) ==
  /\ p \in DriverCalls
  /\ log[p].op = "throw" /\ log[p].exc # "GeneratorExit"
  /\ log[p].st = "deleg"

----------------------------------------------------------------------------
\* Closing.

\* Call p asks a driver to terminate: close(), or throw(GeneratorExit).
CloseReq(p) ==
  /\ p \in DriverCalls
  /\ log[p].op = "close" \/ (log[p].op = "throw" /\ log[p].exc = "GeneratorExit")

CloseCalls(n) == {k \in Idx : log[k].node = n /\ log[k].op = "close"}

\* C4: a driver asked to terminate while delegating closes the inner producer
\* and then the outer producer, and nothing else; an inner producer without
\* close is skipped and close() still returns normally; in Outer only the
\* outer producer is closed; a driver that has not been resumed yet has no
\* active producer and closes nothing.
C4_CloseInnermostFirst ==
  \A p \in Idx :
    CloseReq(p) =>
      LET d == log[p].node
          k == FirstKid(p)
      IN /\ log[p].st = "deleg" =>
              /\ k # 0 /\ log[k].node = log[p].sub /\ log[k].op = "close"
              /\ LET j == NextKid(p, k)
                 IN /\ j # 0 /\ log[j].node = Gen(d) /\ log[j].op = "close"
                    /\ NextKid(p, j) = 0
              /\ (log[k].res.kind = "noattr" /\ log[p].op = "close") =>
                   log[p].res = Returned
              /\ After(p).st = "done"
         /\ log[p].st = "outer" =>
              /\ k # 0 /\ log[k].node = Gen(d) /\ log[k].op = "close"
              /\ NextKid(p, k) = 0
              /\ After(p).st = "done"
         /\ log[p].st = "new" =>
              /\ Kids(p) = {}
              /\ log[p].op = "close" => log[p].res = Returned

\* close() arrives while the top driver delegates to the nested driver, which
\* delegates to the innermost generator: the closes run innermost first.
C4_Witness ==
  \E p \in Idx :
    /\ log[p].par = 0 /\ log[p].op = "close"
    /\ log[p].st = "deleg" /\ log[p].sub = SubDriver
    /\ \E a, b, c, e \in Idx :
         /\ p < a /\ a < b /\ b < c /\ c < e
         /\ a \in CloseCalls(SubDriver) /\ log[a].st = "deleg"
         /\ b \in CloseCalls(SubSubGen) /\ log[b].par = a
         /\ c \in CloseCalls(SubDriverGen) /\ log[c].par = a
         /\ e \in CloseCalls(TopGen) /\ log[e].par = p

----------------------------------------------------------------------------
\* The finally clause.

\* The wrapper body of driver d has run: gen = generator_func(...) exists and
\* has been polled.
Started(d) == facts[Gen(d)] # {}

\* C5 as claimed: a driver that has stopped has attempted close on its outer
\* producer exactly once.
C5_OuterClosedOnce ==
  \A d \in Drivers : ns[d].st = "done" => closes[Gen(d)] = 1

\* The exception or result a terminating call p carries when the close of a
\* gen without a close attribute has been skipped.
InFlight(p, c) ==
  LET j == PrevKid(p, c)
  IN CASE log[p].op = "close" -> Returned
       [] j # 0 /\ log[j].res.kind \in {"raise", "noattr", "stop"} -> AsExc(log[j].res)
       [] OTHER -> Raise(log[p].exc)

\* C5, amended: a driver that has been resumed at least once attempts close
\* on its outer producer exactly once, in the call that ends it and as the
\* last thing that call does, and not before; the attempt on an outer
\* producer without close changes nothing in how that call ends.  (A driver
\* that is closed or thrown into before its first resume has no outer
\* producer yet.)
C5_StartedClosedOnce ==
  /\ \A d \in Drivers :
       Started(d) =>
         /\ ns[d].st = "done" => closes[Gen(d)] = 1
         /\ ns[d].st # "done" => closes[Gen(d)] = 0
  /\ \A c \in Idx :
       (log[c].op = "close" /\ log[c].par \in DriverCalls
          /\ log[c].node = Gen(log[log[c].par].node)) =>
         /\ LastKid(log[c].par) = c
         /\ After(log[c].par).st = "done"
         /\ log[c].res.kind = "noattr" => log[log[c].par].res = InFlight(log[c].par, c)

\* close() arrives while the top driver delegates to a driver whose outer
\* producer is a list iterator: each outer producer gets one close attempt,
\* the missing close attribute is skipped and close() returns normally.
C5_Witness ==
  /\ TopDone /\ ns[IterDriver].st = "done"
  /\ closes[TopGen] = 1 /\ closes[OuterIter] = 1
  /\ \E c \in CloseCalls(OuterIter) :
       /\ log[c].res.kind = "noattr"
       /\ log[log[c].par].op = "close" /\ log[log[c].par].res = Returned
  /\ \E p \in Idx : log[p].par = 0 /\ log[p].op = "close"
                    /\ log[p].st = "deleg" /\ log[p].res = Returned

----------------------------------------------------------------------------
\* Inner producers at the end of a run.

\* n has been delegated to: a driver has polled it as an inner producer.
Polled(n) == n \notin {Gen(d) : d \in Drivers} /\ facts[n] # {}

\* n is accounted for: it completed, it raised, or close was attempted on it.
Settled(n) == \E f \in facts[n] : f[3] \in {"stop", "raise"} \/ f[1] = "close"

\* C6: once the top driver has stopped, every inner producer it or a nested
\* driver delegated to has completed, has raised, or has had close attempted
\* on it.
C6_NoInnerLeftOpen == TopDone => \A n \in Nodes : Polled(n) => Settled(n)

----------------------------------------------------------------------------
\* Delegating to something that is not iterable.

\* The statement the generator serving call k went on to execute.
StmtOf(k) == Script(log[k].node)[log[k].pc + 1]

\* Call k resumed the outer producer of a driver into a statement that
\* delegates to a non-iterable value.
NonIterableFrom(k) ==
  /\ log[k].par \in DriverCalls
  /\ log[k].node = Gen(log[log[k].par].node) /\ Kind(log[k].node) = "gen"
  /\ log[k].op \in {"next", "send"} /\ log[k].st \in {"new", "susp", "hsusp"}
  /\ log[k].pc < Len(Script(log[k].node))
  /\ StmtOf(k).op = "from" /\ Kind(StmtOf(k).tgt) = "value"

\* A body with its delegations to non-iterable values removed.
RECURSIVE Strip(_)
Strip(sc) ==
  IF sc = <<>> THEN <<>>
  ELSE (IF sc[1].op = "from" /\ Kind(sc[1].tgt) = "value" THEN <<>> ELSE <<sc[1]>>)
         \o Strip(Tail(sc))

\* C7: a delegation to a non-iterable value is a delegation to an empty
\* iterator: the first poll ends at once with a completion signal without
\* value, the outer producer is resumed with send(None), and under plain
\* resume the finished run has emitted what the body without the delegation
\* emits.
C7_NonIterableIsEmpty ==
  /\ \A k \in Idx :
       NonIterableFrom(k) =>
         /\ log[k].res.kind = "yield" /\ IsFrom(log[k].res.val)
         /\ Kind(log[k].res.val[2]) = "iter" /\ Items(log[k].res.val[2]) = <<>>
         /\ LET j == NextKid(log[k].par, k)
            IN /\ j # 0 /\ IsFirstPoll(j)
               /\ log[j].res = Stop(<<>>)
               /\ ThenSends(j, None)
  /\ (plain /\ Finite(prog) /\ TopDone) => emitted = FlatBody(Strip(prog), 1, TRUE)

\* The outer body delegates to a non-iterable value and then yields 4: the
\* first resume of the driver emits 4, with send(None) after the empty poll.
C7_Witness ==
  /\ prog[1].op = "from" /\ prog[1].tgt = NonIterable
  /\ emitted = <<IntV(4)>>
  /\ \E k \in Idx : NonIterableFrom(k) /\ log[k].node = TopGen
                    /\ log[NextKid(log[k].par, k)].node = EmptyIter
                    /\ ThenSends(NextKid(log[k].par, k), None)

----------------------------------------------------------------------------
\* Exceptions of, and around, the inner producer.

\* C8: an exception thrown into a driver delegating to an inner producer
\* without throw is thrown, the same exception, into the outer producer.
C8_NoThrowSameException ==
  \A p \in Idx :
    (DelegThrown(p) /\ ~HasAttr(log[p].sub, "throw")) =>
      /\ FirstKid(p) # 0
      /\ ThenThrows(FirstKid(p), log[p].exc)

\* Call p resumes (next or send) a driver suspended inside a delegation.
DelegResumed(p) ==
  /\ p \in DriverCalls
  /\ log[p].op \in {"next", "send"}
  /\ log[p].st = "deleg"

\* C9: an exception an inner producer raises when resumed after its first
\* value is thrown into the outer producer; the inner producer is never
\* resumed again, and the driver goes on as if it had been thrown into while
\* in Outer.
C9_InnerRaiseOnResume ==
  /\ \A p \in Idx :
       DelegResumed(p) =>
         LET k == FirstKid(p)
         IN /\ k # 0 /\ log[k].node = log[p].sub
            /\ log[k].res.kind = "raise" =>
                 /\ ThenThrows(k, log[k].res.exc)
                 /\ \A j \in Idx : j > k => log[j].node # log[p].sub
                 /\ FollowsOuter(p, NextKid(p, k))
  /\ \A j \in Idx :
       (InnerCall(j) /\ IsResume(j)) => ~RaisedBefore(j, {"next", "send"})

\* The inner generator raises ValueError on its second resume; the outer
\* body's handler receives it and yields 3.
C9_Witness ==
  \E p \in Idx :
    /\ log[p].par = 0 /\ DelegResumed(p) /\ log[p].sub = RaisesLater
    /\ log[FirstKid(p)].res = Raise("ValueError")
    /\ ThenThrows(FirstKid(p), "ValueError")
    /\ log[p].res = Yield(IntV(3))
    /\ ns[Top].st = "outer"
    /\ emitted = <<IntV(80), IntV(3)>>

\* C10: an exception an inner producer raises on its first poll, before
\* yielding anything, is thrown into the outer producer.
C10_InnerRaiseOnFirstPoll ==
  \A k \in Idx :
    (IsFirstPoll(k) /\ log[k].res.kind = "raise") => ThenThrows(k, log[k].res.exc)

----------------------------------------------------------------------------
\* Values sent, and exceptions thrown, by the caller.

\* Call p is send(v) on a driver suspended inside a delegation.
DelegSent(p) == DelegResumed(p) /\ log[p].op = "send"

\* C11: a value other than None sent to a delegating driver whose inner
\* producer has send reaches the inner producer as send of that very value,
\* falsy values included.
C11_SentValueReachesInner ==
  \A p \in Idx :
    (DelegSent(p) /\ log[p].arg # None /\ HasAttr(log[p].sub, "send")) =>
      LET k == FirstKid(p)
      IN /\ k # 0 /\ log[k].node = log[p].sub
         /\ log[k].op = "send" /\ log[k].arg = log[p].arg

\* C12: a value sent to a delegating driver whose inner producer has no send
\* falls back to a plain resume of the inner producer: its next value is
\* emitted with the driver still delegating to it, and no exception is thrown
\* into the outer producer or raised to the caller.
C12_SendFallsBackToResume ==
  \A p \in Idx :
    (DelegSent(p) /\ ~HasAttr(log[p].sub, "send")) =>
      /\ \E k \in Kids(p) :
           /\ log[k].node = log[p].sub /\ log[k].op = "next"
           /\ log[k].res.kind = "yield" =>
                /\ log[p].res = log[k].res
                /\ After(p) = [st |-> "deleg", sub |-> log[p].sub]
      /\ \A j \in Kids(p) : ~(log[j].op = "throw" /\ log[j].exc = "AttributeError")
      /\ log[p].res # Raise("AttributeError")

\* Call p is throw(e) on a driver suspended in Outer, e not being
\* GeneratorExit.
OuterThrown(p) ==
  /\ p \in DriverCalls
  /\ log[p].op = "throw" /\ log[p].exc # "GeneratorExit"
  /\ log[p].st = "outer"

\* C13: an exception of any class other than GeneratorExit thrown into a
\* driver in Outer is thrown into the outer producer, and the driver goes on
\* with the outer producer's answer as it does after a resume.
C13_OuterThrowForwarded ==
  \A p \in Idx :
    OuterThrown(p) =>
      LET k == FirstKid(p)
      IN /\ k # 0 /\ log[k].node = Gen(log[p].node)
         /\ log[k].op = "throw" /\ log[k].exc = log[p].exc
         /\ FollowsOuter(p, k)

----------------------------------------------------------------------------
\* Completion of the outer producer.

\* Call j is a resume, send or throw a driver made on its outer producer.
OuterCall(j) ==
  /\ log[j].par \in DriverCalls
  /\ log[j].node = Gen(log[log[j].par].node)
  /\ IsResume(j)

\* C14: when the outer producer completes, on whichever call, the driver's
\* call ends with the same completion signal (same value) and the driver is
\* terminated, having done nothing more than close the outer producer; a call
\* on a terminated driver yields nothing, calls no producer and leaves the
\* driver terminated.
C14_OuterCompletionTerminates ==
  /\ \A j \in Idx :
       (OuterCall(j) /\ log[j].res.kind = "stop") =>
         LET p == log[j].par
             c == NextKid(p, j)
         IN /\ log[p].res = log[j].res
            /\ After(p).st = "done"
            /\ c # 0 /\ log[c].node = log[j].node /\ log[c].op = "close"
            /\ NextKid(p, c) = 0
  /\ \A p \in DriverCalls :
       log[p].st = "done" =>
         /\ Kids(p) = {}
         /\ log[p].res.kind # "yield"
         /\ After(p).st = "done"

\* The nested driver is thrown KeyError while its outer producer waits at 60:
\* the outer producer completes with 66 in response, the nested driver ends
\* with 66, and the top driver sends 66 on.
C14_Witness ==
  \E j \in Idx :
    /\ OuterCall(j) /\ log[j].node = SubDriverGen /\ log[j].op = "throw"
    /\ log[j].res = Stop(<<IntV(66)>>)
    /\ log[log[j].par].res = Stop(<<IntV(66)>>)
    /\ ns[SubDriver].st = "done"
    /\ ThenSends(log[j].par, IntV(66))

----------------------------------------------------------------------------
\* Exceptions that reach the caller.

\* The calls of driver call p in which a producer did something: every call
\* but a close that returned or was skipped.
Acted(p) == {j \in Kids(p) : ~(log[j].op = "close" /\ log[j].res.kind \in {"ok", "noattr"})}

\* The exception call p ends with is the one its last acting producer ended
\* with, or the one thrown in when no producer acted.
SurfacesVerbatim(p) ==
  IF Acted(p) = {} THEN log[p].op = "throw" /\ log[p].res = Raise(log[p].exc)
  ELSE log[p].res = AsExc(log[Max(Acted(p))].res)

\* What the driver throws into a producer during call p is the exception the
\* caller threw in or one a producer raised earlier in the call.
ThrowsOnlyRaised(p) ==
  \A j \in Kids(p) :
    log[j].op = "throw" =>
      \/ log[p].op = "throw" /\ log[j].exc = log[p].exc
      \/ \E k \in Kids(p) : k < j /\ log[k].res = Raise(log[j].exc)

\* C15: an exception that reaches the caller of a driver is the exception
\* the last producer to act raised, and the driver puts no exception of its
\* own making in the place of one that no producer handled.
C15_ExceptionsVerbatim ==
  \A p \in DriverCalls :
    /\ (log[p].res.kind = "raise" /\ log[p].st \notin {"new", "done"}) => SurfacesVerbatim(p)
    /\ ThrowsOnlyRaised(p)

----------------------------------------------------------------------------
\* The outer producer waits while a delegation is in progress.

\* The inner producer of call k is finished with: it completed, it raised, or
\* it was bypassed because it has no throw.
InnerOver(k) ==
  \/ log[k].res.kind \in {"stop", "raise"}
  \/ log[k].res.kind = "noattr" /\ log[k].op = "throw"

\* C16: a driver is unstarted, in Outer, Delegating or Terminated, and holds
\* an inner producer exactly when Delegating; a resume, send or throw reaches
\* the outer producer either first thing in a call on a driver that is not
\* delegating, or right after a call on an inner producer that completed,
\* raised, or was bypassed for lacking throw.
C16_OuterIdleWhileDelegating ==
  /\ \A d \in Drivers :
       /\ ns[d].st \in {"new", "outer", "deleg", "done"}
       /\ ns[d].st = "deleg" <=> ns[d].sub # 0
  /\ \A j \in Idx :
       OuterCall(j) =>
         LET p == log[j].par
             k == PrevKid(p, j)
         IN IF k = 0 THEN log[p].st \in {"new", "outer"}
            ELSE log[k].node # log[j].node /\ InnerOver(k)

----------------------------------------------------------------------------
\* From instances of the outer producer.

\* Call p is a resume, send or throw that the wrapper body of a driver
\* serves (a send of a value to a driver not yet started is rejected by the
\* generator object with TypeError and leaves the driver as it was).
Served(p) ==
  /\ p \in DriverCalls /\ IsResume(p)
  /\ ~(log[p].st = "new" /\ log[p].op = "send" /\ log[p].arg # None)

\* A From instance yielded by an outer producer is followed, in the same
\* call, by the first poll of its iterator.
MarkerPolledAtOnce ==
  \A j \in Idx :
    (OuterCall(j) /\ log[j].res.kind = "yield" /\ IsFrom(log[j].res.val)) =>
      LET k == NextKid(log[j].par, j)
      IN k # 0 /\ log[k].node = log[j].res.val[2] /\ log[k].op = "next"

\* Call p yields what the last producer called yielded, never a From
\* instance of the outer producer, and if it yields nothing the driver is
\* terminated.
EmitsOneOrTerminates(p) ==
  /\ log[p].res.kind = "yield" =>
       LET l == LastKid(p)
       IN /\ l # 0 /\ log[p].res = log[l].res
          /\ OuterCall(l) => ~IsFrom(log[l].res.val)
  /\ log[p].res.kind = "yield" \/ After(p).st = "done"

\* C17 as claimed: a From instance of the outer producer is never emitted
\* and is polled within the same call, and each resume, send or throw on the
\* driver emits one value or terminates the driver.
C17_EveryCallEmitsOrTerminates ==
  /\ MarkerPolledAtOnce
  /\ \A p \in DriverCalls : IsResume(p) => EmitsOneOrTerminates(p)

\* C17, amended: the same for every resume, send or throw that the wrapper
\* body serves; a send of a value before the first resume emits nothing and
\* leaves the driver unstarted.
C17_MarkerNeverEmitted ==
  /\ MarkerPolledAtOnce
  /\ \A p \in Idx : Served(p) => EmitsOneOrTerminates(p)
  /\ \A p \in DriverCalls :
       (IsResume(p) /\ ~Served(p)) =>
         /\ log[p].res = Raise("TypeError") /\ Kids(p) = {}
         /\ After(p).st = "new"

\* One call on the nested driver in which its outer producer yields two From
\* instances of empty iterators in a row and then 60, which is what the call
\* and the top driver's call yield.
C17_Witness ==
  \E j1, j2 \in Idx :
    /\ j1 < j2 /\ log[j1].par = log[j2].par
    /\ OuterCall(j1) /\ log[j1].res = Yield(Marker(EmptyIter))
    /\ OuterCall(j2) /\ log[j2].res = Yield(Marker(EmptyIter))
    /\ log[log[j1].par].res = Yield(IntV(60))
    /\ log[1].res = Yield(IntV(60))
    /\ emitted[Len(emitted)] = IntV(60)

----------------------------------------------------------------------------
\* From instances of an inner producer.

\* C18: a From instance yielded by an inner producer is an ordinary value:
\* the driver's call yields it unchanged and makes no further call, nothing
\* is called on the iterator it wraps, and the driver is Delegating on the
\* same inner producer afterwards.
C18_InnerMarkerIsPlainValue ==
  \A k \in Idx :
    (InnerCall(k) /\ log[k].res.kind = "yield" /\ IsFrom(log[k].res.val)) =>
      LET p == log[k].par
      IN /\ log[p].res = log[k].res
         /\ NextKid(p, k) = 0
         /\ \A j \in Idx : j > k => log[j].node # log[k].res.val[2]
         /\ After(p) = [st |-> "deleg", sub |-> log[k].node]

\* The outer body delegates to an undecorated generator whose first yield is
\* From(None): the caller receives that From instance, its empty iterator
\* has never been polled, and the driver is delegating to the generator.
C18_Witness ==
  /\ prog[1].op = "from" /\ prog[1].tgt = MarkerGen
  /\ emitted = <<Marker(EmptyIter)>>
  /\ facts[EmptyIter] = {}
  /\ ns[Top] = [st |-> "deleg", pc |-> 0, sub |-> MarkerGen]
  /\ \E k \in Idx : IsFirstPoll(k) /\ log[k].node = MarkerGen
                    /\ log[k].res = Yield(Marker(EmptyIter))

----------------------------------------------------------------------------
\* A close of the inner producer that raises.

\* C19: when a driver is asked to terminate while delegating and the close of
\* the inner producer raises, close is still attempted on the outer producer,
\* once and as the last call, and unless that close raises too the exception
\* of the inner close is what the caller gets.
C19_InnerCloseRaises ==
  \A p \in Idx :
    (CloseReq(p) /\ log[p].st = "deleg") =>
      LET d == log[p].node
          k == FirstKid(p)
          j == NextKid(p, k)
      IN (k # 0 /\ log[k].op = "close" /\ log[k].res.kind = "raise") =>
           /\ j # 0 /\ log[j].node = Gen(d) /\ log[j].op = "close"
           /\ NextKid(p, j) = 0
           /\ closes[Gen(d)] = 1
           /\ log[j].res.kind # "raise" => log[p].res = log[k].res
           /\ After(p).st = "done"

\* close() arrives while the top driver delegates to a generator that yields
\* again on GeneratorExit: its close raises RuntimeError, the outer generator
\* is closed, and RuntimeError comes out of close().
C19_Witness ==
  \E p \in Idx :
    /\ log[p].par = 0 /\ log[p].op = "close" /\ log[p].st = "deleg"
    /\ log[p].sub = IgnoresExit
    /\ log[FirstKid(p)].node = IgnoresExit
    /\ log[FirstKid(p)].res = Raise("RuntimeError")
    /\ log[LastKid(p)].node = TopGen /\ log[LastKid(p)].op = "close"
    /\ log[p].res = Raise("RuntimeError")
    /\ closes[TopGen] = 1 /\ TopDone

----------------------------------------------------------------------------
\* Termination of finite runs.

\* The values of a sequence that are not From instances.
NonMarkers(q) == SelectSeq(q, LAMBDA v : ~IsFrom(v))

\* C20 as claimed: with finite producers and a caller that keeps resuming,
\* the driver eventually is terminated, having emitted (under plain resume)
\* as many values as the scopes yield values that are not From instances.
C20_EmitsNonMarkerCount ==
  Finite(prog) =>
    <>[](TopDone /\ (plain => Len(emitted) = Len(NonMarkers(FlatBody(prog, 1, TRUE)))))

\* C20, amended: the driver eventually is terminated for good, having emitted
\* (under plain resume) one value for each value the scopes yield, where the
\* From instances that a driver's own outer producer yields are not values
\* but a From instance yielded by an undecorated inner generator is.
C20_FiniteRunTerminates ==
  Finite(prog) =>
    <>[](TopDone /\ (plain => Len(emitted) = Len(FlatBody(prog, 1, TRUE))))

\* The run over iter([40, 41]) and the final yield has ended after exactly
\* three values.
C20_Witness ==
  /\ plain /\ TopDone
  /\ prog[1].op = "from" /\ prog[1].tgt = ListIter
  /\ Len(emitted) = 3
  /\ log[1].st = "done"

====
